---- MODULE Spec2Model ----
(***************************************************************************)
(* Tag verification and anti-clone decision engine of the Make Beauty NFC  *)
(* backend: POST /api/verify-product and POST /api/admin/register-product  *)
(* of src/server.js, and the spreadsheet import of src/sync-sheets.js,     *)
(* running against one shared collection of product documents.             *)
(*                                                                         *)
(* Strings are sequences of one-character strings.  An optional JSON value *)
(* (a request field that may be missing) is a sequence of length 0 or 1:   *)
(* <<>> is "undefined", <<v>> is the value v.                              *)
(***************************************************************************)
EXTENDS Integers, Sequences, FiniteSets, TLC

VARIABLES
  store,    \* the product collection: nfcUID -> document
  pending,  \* per request slot: the document changes awaiting product.save()
  resp,     \* the response the running callback has sent, until it returns
  now,      \* the clock read by new Date()
  sync      \* the import job: the row awaiting its save()

vars == <<store, pending, resp, now, sync>>

(***************************************************************************)
(* Bounds of the model.                                                    *)
(***************************************************************************)
\* scans accepted in one behaviour (each takes one tick of the clock)
MaxScans == 2
\* largest counter value a request presents
MaxCounter == 2

(***************************************************************************)
(* Optional values and JavaScript truthiness.                              *)
(***************************************************************************)
Undefined == <<>>
Some(v) == <<v>>
IsDefined(o) == o # <<>>
\* `counter` of the request body: a number is truthy unless it is 0
CounterTruthy(counter) == IsDefined(counter) /\ counter[1] # 0
\* `signature` of the request body: a string is truthy unless it is ""
SignatureTruthy(signature) == IsDefined(signature) /\ signature[1] # <<>>

(***************************************************************************)
(* Identifiers.                                                            *)
(***************************************************************************)
HexChars == {"0","1","2","3","4","5","6","7","8","9","A","B","C","D","E","F"}

\* String.prototype.toUpperCase on one character
UpperChar(c) ==
  CASE c = "a" -> "A" [] c = "b" -> "B" [] c = "c" -> "C" [] c = "d" -> "D"
    [] c = "e" -> "E" [] c = "f" -> "F" [] c = "z" -> "Z" [] OTHER -> c

RECURSIVE Strip(_, _)
\* s.replace(/[...]/g, '') for the character class `class`
Strip(s, class) ==
  IF s = <<>> THEN <<>>
  ELSE IF Head(s) \in class THEN Strip(Tail(s), class)
       ELSE <<Head(s)>> \o Strip(Tail(s), class)

ToUpperCase(s) == [i \in 1..Len(s) |-> UpperChar(s[i])]

\* /^[0-9A-F]{14,20}$/
UidMinLen == 14
UidMaxLen == 20
HexPattern(s) ==
  /\ Len(s) >= UidMinLen
  /\ Len(s) <= UidMaxLen
  /\ \A i \in 1..Len(s) : s[i] \in HexChars

\* an identifier check that would strip what the lookup key strips
IsValidUIDKeepingHyphens(uid) ==
  /\ uid # <<>>
  /\ HexPattern(ToUpperCase(Strip(uid, {":", " "})))

\* isValidUID: strips colons, whitespace and hyphens before the test
IsValidUID(uid) ==
  /\ uid # <<>>
  /\ HexPattern(ToUpperCase(Strip(uid, {":", " ", "-"})))

\* the handlers' own normalisation: colons and whitespace only
NormalizedUID(uid) == ToUpperCase(Strip(uid, {":", " "}))

\* normalizeUID of the import job: colons, whitespace and hyphens
NormalizeUID(uid) == ToUpperCase(Strip(uid, {":", " ", "-"}))

\* String.prototype.includes
Includes(s, sub) ==
  \E i \in 0..(Len(s) - Len(sub)) :
     \A j \in 1..Len(sub) : s[i + j] = sub[j]

DemoMarkers ==
  { <<"A","A","B","B","C","C","D","D","D","E","E","F","F">>,
    <<"1","1","2","2","3","3","4","4","5","5","6","6">>,
    <<"D","E","M","O">> }

IsDemoUID(normalizedUID) == \E m \in DemoMarkers : Includes(normalizedUID, m)


(***************************************************************************)
(* Signatures.  The HMAC-SHA256 hex digest is modelled as the collision-   *)
(* free keyed function it is meant to be: the digest of (key, message) is  *)
(* the string key|message.                                                 *)
(***************************************************************************)
Digits == <<"0","1","2","3","4","5","6","7","8","9">>

RECURSIVE NatToString(_)
NatToString(n) ==
  IF n < 10 THEN <<Digits[n + 1]>>
  ELSE NatToString(n \div 10) \o <<Digits[(n % 10) + 1]>>

\* `${counter}` of the template string: "undefined" when the field is missing
CounterToString(counter) ==
  IF ~IsDefined(counter) THEN <<"u","n","d","e","f","i","n","e","d">>
  ELSE IF counter[1] < 0 THEN <<"-">> \o NatToString(0 - counter[1])
       ELSE NatToString(counter[1])

\* `${uid}:${counter}`: the identifier as supplied, not the normalised one
SignedMessage(uid, counter) == uid \o <<":">> \o CounterToString(counter)

Hmac(key, message) == key \o <<"|">> \o message


(***************************************************************************)
(* The product documents.                                                  *)
(***************************************************************************)
\* the secrets crypto.randomBytes(32).toString('hex') can return
KeyPool == {<<"s1">>}

\* crypto.createHash('sha256').update(secretKey).digest('hex'): one-way, so
\* the digest of a secret is never the secret
Sha256(secretKey) == <<"sha256">> \o secretKey

\* the address a request comes from (x-forwarded-for, x-real-ip or the
\* socket's remote address): never empty
IpAddresses == {"ip1"}

\* product.scans.push({ timestamp: new Date(), ipAddress, ... })
NewScan(timestamp, ipAddress) == [timestamp |-> timestamp, ipAddress |-> ipAddress]

(***************************************************************************)
(* detectClonePattern(scans), evaluated when the clock reads dateNow       *)
(* (milliseconds).                                                         *)
(***************************************************************************)
RecentWindow == 60000
RecentLimit == 5
DayWindow == 86400000
IpLimit == 10

ReasonRecent == "Multiplos scans em menos de 1 minuto"
ReasonIPs == "Muitos IPs diferentes em 24h"

\* scans.filter(scan => Date.now() - new Date(scan.timestamp).getTime() < window)
ScansWithin(scans, dateNow, window) ==
  SelectSeq(scans, LAMBDA scan : dateNow - scan.timestamp < window)

\* [...new Set(last24h.map(s => s.ipAddress).filter(Boolean))]: a scan
\* without an address has ipAddress ""
UniqueIPs(last24h) ==
  {last24h[i].ipAddress : i \in DOMAIN last24h} \ {""}

\* a detector whose first rule triggers at RecentLimit scans already
DetectClonePatternAtLimit(scans, dateNow) ==
  IF Len(scans) < 2
  THEN [suspicious |-> FALSE, reason |-> <<>>]
  ELSE IF Len(ScansWithin(scans, dateNow, RecentWindow)) >= RecentLimit
  THEN [suspicious |-> TRUE, reason |-> <<ReasonRecent>>]
  ELSE IF Cardinality(UniqueIPs(ScansWithin(scans, dateNow, DayWindow))) > IpLimit
  THEN [suspicious |-> TRUE, reason |-> <<ReasonIPs>>]
  ELSE [suspicious |-> FALSE, reason |-> <<>>]

DetectClonePattern(scans, dateNow) ==
  IF Len(scans) < 2
  THEN [suspicious |-> FALSE, reason |-> <<>>]
  ELSE IF Len(ScansWithin(scans, dateNow, RecentWindow)) > RecentLimit
  THEN [suspicious |-> TRUE, reason |-> <<ReasonRecent>>]
  ELSE IF Cardinality(UniqueIPs(ScansWithin(scans, dateNow, DayWindow))) > IpLimit
  THEN [suspicious |-> TRUE, reason |-> <<ReasonIPs>>]
  ELSE [suspicious |-> FALSE, reason |-> <<>>]

\* the documents of the collection, indexed by the unique nfcUID
Exists(st, nfcUID) == nfcUID \in DOMAIN st
FindOne(st, nfcUID) == IF Exists(st, nfcUID) THEN Some(st[nfcUID]) ELSE Undefined

Insert(st, nfcUID, doc) ==
  [k \in (DOMAIN st) \cup {nfcUID} |-> IF k = nfcUID THEN doc ELSE st[k]]

(***************************************************************************)
(* The inputs the model draws.                                             *)
(***************************************************************************)
U1 == <<"0","4","A","1","B","2","C","3","D","4","E","5","F","6">>
U1Colons == <<"0","4",":","a","1",":","b","2",":","c","3",":","d","4",":","e","5",":","f","6">>
UDemo == <<"A","A","1","1","2","2","3","3","4","4","5","5","6","6">>
UBad == <<"z","z">>
UEmpty == <<>>
\* the same tag as U1, written with hyphens
U1Hyphens == <<"0","4","-","A","1","-","B","2","-","C","3","-","D","4","-","E","5","-","F","6">>
\* 13, 20 and 21 hexadecimal characters, and 14 characters of which one is
\* not hexadecimal
UShort == <<"0","4","A","1","B","2","C","3","D","4","E","5","F">>
U20 == <<"0","4","a","1","b","2","c","3","d","4","e","5","f","6","0","7","0","8","0","9">>
ULong == <<"0","4","A","1","B","2","C","3","D","4","E","5","F","6","0","7","0","8","0","9","0">>
UNonHex == <<"0","4","A","1","B","2","C","3","D","4","E","5","F","z">>

VerifyUIDs ==
  {U1, U1Colons, UDemo, UBad, UEmpty, U1Hyphens, UShort, U20, ULong, UNonHex}
RegisterUIDs == {U1, UDemo}
SheetUIDs == {U1Colons}

CounterInputs == {Undefined} \cup {Some(c) : c \in (0 - 1)..MaxCounter}

\* the keys a caller may sign with: the secret that was generated, or its
\* digest, which is what the product stores
SigningKeys == KeyPool \cup {Sha256(k) : k \in KeyPool}

\* no signature, the empty string, a keyed hash of the identifier as
\* supplied under either key, or one of its normalised form under the key
\* the product stores
SignatureInputs(uid, counter) ==
  {Undefined, Some(<<>>)} \cup
  { Some(Hmac(k, SignedMessage(uid, counter))) : k \in SigningKeys } \cup
  { Some(Hmac(Sha256(k), SignedMessage(NormalizedUID(uid), counter))) : k \in KeyPool }


\* what the caller may put in productData of a registration
ProductDataInputs ==
  { [scanCount |-> Undefined, isActive |-> Undefined, expiryDate |-> Undefined],
    [scanCount |-> Some(0 - 2), isActive |-> Undefined, expiryDate |-> Undefined],
    [scanCount |-> Undefined, isActive |-> Some(FALSE), expiryDate |-> Undefined] }

\* productData with nothing the model reads in it
PlainProductData ==
  [scanCount |-> Undefined, isActive |-> Undefined, expiryDate |-> Undefined]

\* the registrations the model draws: every productData for the plain
\* identifier, the default one for the demonstration identifier
RegisterInputs ==
  {[nfcUID |-> U1, productData |-> pd] : pd \in ProductDataInputs} \cup
  {[nfcUID |-> UDemo, productData |-> PlainProductData]}

\* the request slots: two verification requests can be in flight at once
Reqs == {"r1", "r2"}

\* what the handlers compute from an identifier alone, computed once for
\* every identifier the model draws
UidTable ==
  [ uid \in VerifyUIDs \cup RegisterUIDs \cup SheetUIDs |->
      [ valid |-> IsValidUID(uid),
        normalizedUID |-> NormalizedUID(uid),
        isDemoUID |-> IsDemoUID(NormalizedUID(uid)) ] ]

SignatureTable ==
  [ uid \in VerifyUIDs |-> [ counter \in CounterInputs |-> SignatureInputs(uid, counter) ] ]

\* the messages the handler signs, computed once for every request of the model
MessageTable ==
  [ uid \in VerifyUIDs |-> [ counter \in CounterInputs |-> SignedMessage(uid, counter) ] ]

\* crypto.createHmac('sha256', product.secretKey).update(`${uid}:${counter}`)
ExpectedSignature(product, uid, counter) ==
  Hmac(product.secretKey, MessageTable[uid][counter])

(***************************************************************************)
(* POST /api/verify-product: the checks, in the order of the handler.      *)
(***************************************************************************)
IsFromSheets(product) == product.syncedFromSheets = TRUE

\* the condition of the signature block
SignatureChecked(isDemoUID, product, signature) ==
  /\ ~isDemoUID
  /\ ~IsFromSheets(product)
  /\ SignatureTruthy(signature)
  /\ product.secretKey # <<>>

SignatureRejected(isDemoUID, product, uid, signature, counter) ==
  /\ SignatureChecked(isDemoUID, product, signature)
  /\ signature[1] # ExpectedSignature(product, uid, counter)

\* the condition of the counter block
CounterChecked(isDemoUID, product, counter) ==
  /\ ~isDemoUID
  /\ ~IsFromSheets(product)
  /\ CounterTruthy(counter)

CounterRejected(isDemoUID, product, counter) ==
  /\ CounterChecked(isDemoUID, product, counter)
  /\ counter[1] <= product.scanCount

\* product.scanCount = counter || (product.scanCount + 1)
NewScanCount(product, counter) ==
  IF CounterTruthy(counter) THEN counter[1] ELSE product.scanCount + 1

\* the same checks without the one of product.isActive
EarlyDecisionWithoutActiveCheck(st, uid) ==
  IF uid = <<>> THEN "MissingUID"
  ELSE IF ~UidTable[uid].valid THEN "InvalidUID"
  ELSE IF ~Exists(st, UidTable[uid].normalizedUID) THEN "NotFound"
  ELSE "Active"

\* the checks before the signature block: they read the identifier only
EarlyDecision(st, uid) ==
  IF uid = <<>> THEN "MissingUID"
  ELSE IF ~UidTable[uid].valid THEN "InvalidUID"
  ELSE IF ~Exists(st, UidTable[uid].normalizedUID) THEN "NotFound"
  ELSE IF ~st[UidTable[uid].normalizedUID].isActive THEN "Inactive"
  ELSE "Active"

\* a handler that would examine the counter before the signature
DecisionCounterFirst(st, uid, signature, counter) ==
  IF EarlyDecision(st, uid) # "Active" THEN EarlyDecision(st, uid)
  ELSE IF CounterRejected(UidTable[uid].isDemoUID, st[UidTable[uid].normalizedUID],
                          counter) THEN "BadCounter"
  ELSE IF SignatureRejected(UidTable[uid].isDemoUID, st[UidTable[uid].normalizedUID],
                            uid, signature, counter) THEN "BadSignature"
  ELSE "Accept"

\* the first check of the handler that ends the request, or "Accept"
Decision(st, uid, signature, counter) ==
  IF EarlyDecision(st, uid) # "Active" THEN EarlyDecision(st, uid)
  ELSE IF SignatureRejected(UidTable[uid].isDemoUID, st[UidTable[uid].normalizedUID],
                            uid, signature, counter) THEN "BadSignature"
  ELSE IF CounterRejected(UidTable[uid].isDemoUID, st[UidTable[uid].normalizedUID],
                          counter) THEN "BadCounter"
  ELSE "Accept"

(***************************************************************************)
(* The responses.                                                          *)
(***************************************************************************)
RespMissingUID ==
  [status |-> 400, authentic |-> FALSE, error |-> "UID da tag NFC e obrigatorio"]
RespInvalidUID ==
  [status |-> 400, authentic |-> FALSE, error |-> "Formato de UID invalido"]
RespNotFound ==
  [status |-> 404, authentic |-> FALSE,
   error |-> "Tag NFC nao registrada no sistema Make Beauty"]
RespInactive ==
  [status |-> 403, authentic |-> FALSE, error |-> "Produto foi bloqueado ou recolhido"]
RespBadSignature ==
  [status |-> 403, authentic |-> FALSE, error |-> "Assinatura criptografica invalida"]
RespBadCounter ==
  [status |-> 403, authentic |-> FALSE,
   error |-> "Contador de leituras invalido - tag possivelmente clonada"]

\* the catch block of the handler
RespInternal ==
  [status |-> 500, authentic |-> FALSE, error |-> "Erro interno do servidor"]

Rejection(decision) ==
  CASE decision = "MissingUID" -> RespMissingUID
    [] decision = "InvalidUID" -> RespInvalidUID
    [] decision = "NotFound" -> RespNotFound
    [] decision = "Inactive" -> RespInactive
    [] decision = "BadSignature" -> RespBadSignature
    [] decision = "BadCounter" -> RespBadCounter

\* the success response: the fields of it that depend on the scan, with the
\* product it describes and the counter of the request it answers
\* an expiry test that is already true at the instant of expiry
IsExpiredAtExpiry(expiryDate, dateNow) ==
  IF IsDefined(expiryDate) THEN dateNow >= expiryDate[1] ELSE FALSE

\* isExpired: product.expiryDate ? Date.now() > product.expiryDate.getTime() : false
IsExpired(expiryDate, dateNow) ==
  IF IsDefined(expiryDate) THEN dateNow > expiryDate[1] ELSE FALSE

RespAuthentic(p, dateNow) ==
  [status |-> 200, authentic |-> TRUE, nfcUID |-> p.nfcUID, counter |-> p.counter,
   scanCount |-> p.scanCount, isFirstScan |-> (p.scanCount = 1),
   isExpired |-> IsExpired(p.expiryDate, dateNow),
   productStatus |-> IF IsExpired(p.expiryDate, dateNow) THEN "Vencido" ELSE "Valido",
   suspicious |-> p.cloneCheck.suspicious,
   warning |-> IF p.cloneCheck.suspicious THEN p.cloneCheck.reason ELSE <<>>]

\* the changes product.save() will write: the new scanCount and the pushed
\* scan; with them the verdict of the detector on the scans in memory
Changes(product, normalizedUID, counter, timestamp, ipAddress) ==
  [ nfcUID |-> normalizedUID,
    counter |-> counter,
    scanCount |-> NewScanCount(product, counter),
    scan |-> NewScan(timestamp, ipAddress),
    expiryDate |-> product.expiryDate,
    cloneCheck |-> DetectClonePattern(Append(product.scans, NewScan(timestamp, ipAddress)),
                                      timestamp) ]

\* a save() that would write every path of the document in memory, the
\* expiry date it was read with included
SaveScanWholeDocument(st, p) ==
  [st EXCEPT ![p.nfcUID] =
     [@ EXCEPT !.scanCount = p.scanCount, !.scans = Append(@, p.scan),
               !.expiryDate = p.expiryDate]]

\* what save() of a changed document writes: $set of the modified scanCount
\* and $push of the new scan, to the document as it is stored now
SaveScan(st, p) ==
  [st EXCEPT ![p.nfcUID] =
     [@ EXCEPT !.scanCount = p.scanCount, !.scans = Append(@, p.scan)]]

\* Node runs one callback at a time: the next one starts when the running one
\* has returned, its response (if any) sent
Ready == resp = <<>>

\* slot r can take a new request.  Slots only name the requests in flight, so
\* a new request takes the first free one
Idle(r) ==
  /\ Ready
  /\ pending[r] = <<>>
  /\ r = "r1" \/ pending["r1"] # <<>>

\* a request that one of the checks ends: the response is sent, nothing saved.
\* The actions below name this effect first and the check that leads to it
\* second
Reject(r, decision) ==
  /\ Idle(r)
  /\ resp' = Some(Rejection(decision))
  /\ UNCHANGED <<store, pending, now, sync>>

\* the checks before the signature block end the request whatever signature
\* and counter it carries
VerifyMissingUID(r, uid) ==
  /\ Reject(r, "MissingUID")
  /\ EarlyDecision(store, uid) = "MissingUID"
VerifyInvalidUID(r, uid) ==
  /\ Reject(r, "InvalidUID")
  /\ EarlyDecision(store, uid) = "InvalidUID"
VerifyNotFound(r, uid) ==
  /\ Reject(r, "NotFound")
  /\ EarlyDecision(store, uid) = "NotFound"
VerifyInactive(r, uid) ==
  /\ Reject(r, "Inactive")
  /\ EarlyDecision(store, uid) = "Inactive"
VerifyBadSignature(r, uid, signature, counter) ==
  /\ Reject(r, "BadSignature")
  /\ Decision(store, uid, signature, counter) = "BadSignature"

\* a counter check that would record the scan before it rejects
VerifyBadCounterScanRecorded(r, uid, signature, counter) ==
  /\ Idle(r)
  /\ now < MaxScans
  /\ Decision(store, uid, signature, counter) = "BadCounter"
  /\ store' = [store EXCEPT ![UidTable[uid].normalizedUID].scans =
                               Append(@, NewScan(now, "ip1"))]
  /\ now' = now + 1
  /\ resp' = Some(RespBadCounter)
  /\ UNCHANGED <<pending, sync>>

VerifyBadCounter(r, uid, signature, counter) ==
  /\ Reject(r, "BadCounter")
  /\ Decision(store, uid, signature, counter) = "BadCounter"

\* findOne resolved and every check passed: the document is changed in memory
\* and product.save() is called
VerifyAccept(r, uid, signature, counter) ==
  /\ Idle(r)
  /\ now < MaxScans
  /\ UNCHANGED <<store, resp, sync>>
  /\ now' = now + 1
  /\ Decision(store, uid, signature, counter) = "Accept"
  /\ \E ipAddress \in IpAddresses :
       pending' = [pending EXCEPT ![r] =
         Some(Changes(store[UidTable[uid].normalizedUID], UidTable[uid].normalizedUID,
                      counter, now, ipAddress))]

\* a save() that a suspicious verdict would turn into a rejection
VerifySaveUnlessSuspicious(r) ==
  /\ Ready
  /\ pending[r] # <<>>
  /\ IF pending[r][1].cloneCheck.suspicious
     THEN store' = store /\ resp' = Some(RespBadCounter)
     ELSE /\ store' = SaveScan(store, pending[r][1])
          /\ resp' = Some(RespAuthentic(pending[r][1], now))
  /\ pending' = [pending EXCEPT ![r] = Undefined]
  /\ UNCHANGED <<now, sync>>

\* product.save() resolved: the success response is sent
VerifySave(r) ==
  /\ Ready
  /\ pending[r] # <<>>
  /\ store' = SaveScan(store, pending[r][1])
  /\ resp' = Some(RespAuthentic(pending[r][1], now))
  /\ pending' = [pending EXCEPT ![r] = Undefined]
  /\ UNCHANGED <<now, sync>>

(***************************************************************************)
(* POST /api/admin/register-product (with a valid admin key).              *)
(***************************************************************************)
\* new Product({ nfcUID, ...productData, secretKey: sha256(secretKey),
\* syncedFromSheets: false }) with the schema defaults scanCount 0,
\* isActive true, scans []
RegisteredProduct(productData, secretKey) ==
  [ secretKey |-> Sha256(secretKey),
    scanCount |-> IF IsDefined(productData.scanCount)
                  THEN productData.scanCount[1] ELSE 0,
    isActive |-> IF IsDefined(productData.isActive)
                 THEN productData.isActive[1] ELSE TRUE,
    expiryDate |-> productData.expiryDate,
    syncedFromSheets |-> FALSE,
    scans |-> <<>> ]

AdminRegister(nfcUID, productData, secretKey) ==
  /\ Ready
  /\ IsValidUID(UidTable[nfcUID].normalizedUID)
  /\ ~Exists(store, UidTable[nfcUID].normalizedUID)
  /\ store' = Insert(store, UidTable[nfcUID].normalizedUID,
                     RegisteredProduct(productData, secretKey))
  /\ UNCHANGED <<pending, resp, now, sync>>

\* the answer to a registration of an nfcUID that findOne finds
RespConflict ==
  [status |-> 409, authentic |-> FALSE, error |-> "Tag NFC ja registrada no sistema"]

\* findOne({ nfcUID: normalizedUID }) finds a product: 409 and nothing is saved
AdminRegisterConflict(nfcUID) ==
  /\ Ready
  /\ IsValidUID(UidTable[nfcUID].normalizedUID)
  /\ Exists(store, UidTable[nfcUID].normalizedUID)
  /\ resp' = Some(RespConflict)
  /\ UNCHANGED <<store, pending, now, sync>>

(***************************************************************************)
(* syncSheetsToMongoDB, one row of the sheet at a time.  The name, batch   *)
(* and dates of a product are written by this job only and no check of the *)
(* verification reads them, so the documents of the model do not carry     *)
(* them: whether the row differs from the stored document in one of them   *)
(* (`updated`) is an input of the row.                                     *)
(***************************************************************************)
\* the expiry date of a row (its Validade, or two years after the
\* manufacturing date): a date that no instant of a behaviour reaches
SheetExpiry == 2000000000

\* new Product({...}) of the import: schema defaults scanCount 0, scans []
ImportedProduct(secretKey) ==
  [ secretKey |-> Sha256(secretKey),
    scanCount |-> 0,
    isActive |-> TRUE,
    expiryDate |-> Some(SheetExpiry),
    syncedFromSheets |-> TRUE,
    scans |-> <<>> ]

\* findOne found the product and the row differs from it: the changed fields
\* are set in memory and existingProduct.save() is called
SyncFindExisting(rawUID, updated) ==
  /\ Ready
  /\ sync = <<>>
  /\ Exists(store, NormalizeUID(rawUID))
  /\ updated
  /\ sync' = Some([nfcUID |-> NormalizeUID(rawUID), existing |-> TRUE,
                   secretKey |-> <<>>])
  /\ UNCHANGED <<store, pending, resp, now>>

\* findOne found the product and nothing differs: syncedFromSheets is set in
\* memory but save() is not called
SyncUnchanged(rawUID, updated) ==
  /\ Ready
  /\ sync = <<>>
  /\ Exists(store, NormalizeUID(rawUID))
  /\ ~updated
  /\ UNCHANGED vars

\* findOne found nothing: a new product is built and newProduct.save() called
SyncFindNew(rawUID, secretKey) ==
  /\ Ready
  /\ sync = <<>>
  /\ ~Exists(store, NormalizeUID(rawUID))
  /\ sync' = Some([nfcUID |-> NormalizeUID(rawUID), existing |-> FALSE,
                   secretKey |-> secretKey])
  /\ UNCHANGED <<store, pending, resp, now>>

\* a save() that would write the whole document the import builds from the
\* row, scan history included
SaveRowWholeDocument(st, row) ==
  [st EXCEPT ![row.nfcUID] = [@ EXCEPT !.syncedFromSheets = TRUE,
                                        !.expiryDate = Some(SheetExpiry),
                                        !.scans = <<>>]]

\* what existingProduct.save() writes: $set of the modified paths only (the
\* product fields of the row, syncedFromSheets, updatedAt)
SaveRow(st, row) ==
  [st EXCEPT ![row.nfcUID] = [@ EXCEPT !.syncedFromSheets = TRUE,
                                        !.expiryDate = Some(SheetExpiry)]]

SyncSaveExisting ==
  /\ Ready
  /\ sync # <<>>
  /\ sync[1].existing
  /\ store' = SaveRow(store, sync[1])
  /\ sync' = <<>>
  /\ UNCHANGED <<pending, resp, now>>

\* newProduct.save(): an insert, refused by the unique index when the nfcUID
\* was registered in the meantime (the error is caught and counted)
SyncSaveNew ==
  /\ Ready
  /\ sync # <<>>
  /\ ~sync[1].existing
  /\ store' = IF Exists(store, sync[1].nfcUID) THEN store
              ELSE Insert(store, sync[1].nfcUID, ImportedProduct(sync[1].secretKey))
  /\ sync' = <<>>
  /\ UNCHANGED <<pending, resp, now>>

(***************************************************************************)
(* The second definition of syncSheetsToMongoDB in sync-sheets.js.  It     *)
(* takes the UID cell of the row as the nfcUID, as it is written in the    *)
(* sheet, and on a product it finds it sets the batch and the dates only.  *)
(***************************************************************************)
SecondSheetUIDs == {U1, U1Colons}

\* findOne({ nfcUID }) found the product: batch and dates are set and
\* existingProduct.save() is called
SecondSyncFindExisting(rawUID) ==
  /\ Ready
  /\ sync = <<>>
  /\ Exists(store, rawUID)
  /\ sync' = Some([nfcUID |-> rawUID, existing |-> TRUE, secretKey |-> <<>>])
  /\ UNCHANGED <<store, pending, resp, now>>

\* findOne found nothing: a new product is built and newProduct.save() called
SecondSyncFindNew(rawUID, secretKey) ==
  /\ Ready
  /\ sync = <<>>
  /\ ~Exists(store, rawUID)
  /\ sync' = Some([nfcUID |-> rawUID, existing |-> FALSE,
                   secretKey |-> secretKey])
  /\ UNCHANGED <<store, pending, resp, now>>

\* what this existingProduct.save() writes: $set of batchNumber,
\* manufacturingDate, manufacturingDateTime and updatedAt, none of which the
\* documents of the model carry
SecondSaveRow(st, row) == st

SecondSyncSaveExisting ==
  /\ Ready
  /\ sync # <<>>
  /\ sync[1].existing
  /\ store' = SecondSaveRow(store, sync[1])
  /\ sync' = <<>>
  /\ UNCHANGED <<pending, resp, now>>

(***************************************************************************)
(* The storage failing: findOne or save() rejects, the handler's catch     *)
(* block answers.                                                          *)
(***************************************************************************)
\* findOne rejected: nothing was read, nothing is saved
VerifyLookupFails(r, uid) ==
  /\ Idle(r)
  /\ EarlyDecision(store, uid) \notin {"MissingUID", "InvalidUID"}
  /\ resp' = Some(RespInternal)
  /\ UNCHANGED <<store, pending, now, sync>>

\* a rejected save() that would leave the request without a response
VerifySaveFailsSilently(r) ==
  /\ Ready
  /\ pending[r] # <<>>
  /\ resp' = <<>>
  /\ pending' = [pending EXCEPT ![r] = Undefined]
  /\ UNCHANGED <<store, now, sync>>

\* product.save() rejected: the changes stay in memory and are dropped
VerifySaveFails(r) ==
  /\ Ready
  /\ pending[r] # <<>>
  /\ resp' = Some(RespInternal)
  /\ pending' = [pending EXCEPT ![r] = Undefined]
  /\ UNCHANGED <<store, now, sync>>

\* the callback that answered returns: its response has left the process
ResponseSent ==
  /\ resp # <<>>
  /\ resp' = <<>>
  /\ UNCHANGED <<store, pending, now, sync>>

(***************************************************************************)
(* The system.                                                             *)
(***************************************************************************)
Init ==
  /\ store = <<>>
  /\ pending = [r \in Reqs |-> Undefined]
  /\ resp = Undefined
  /\ now = 0
  /\ sync = <<>>

\* the identifiers that pass the identifier check: only a request with one
\* of them reaches the lookup
ValidUIDs == {uid \in VerifyUIDs : uid # <<>> /\ UidTable[uid].valid}

Next ==
  \/ \E r \in Reqs :
       Idle(r) /\ \E uid \in VerifyUIDs : VerifyMissingUID(r, uid)
  \/ \E r \in Reqs :
       Idle(r) /\ \E uid \in VerifyUIDs : VerifyInvalidUID(r, uid)
  \/ \E r \in Reqs :
       Idle(r) /\ \E uid \in VerifyUIDs : VerifyNotFound(r, uid)
  \/ \E r \in Reqs :
       Idle(r) /\ \E uid \in VerifyUIDs : VerifyInactive(r, uid)
  \/ \E r \in Reqs :
       Idle(r) /\ \E uid \in ValidUIDs, counter \in CounterInputs :
                    \E signature \in SignatureTable[uid][counter] :
                      VerifyBadSignature(r, uid, signature, counter)
  \/ \E r \in Reqs :
       Idle(r) /\ \E uid \in ValidUIDs, counter \in CounterInputs :
                    \E signature \in SignatureTable[uid][counter] :
                      VerifyBadCounter(r, uid, signature, counter)
  \/ \E r \in Reqs :
       Idle(r) /\ \E uid \in ValidUIDs, counter \in CounterInputs :
                    \E signature \in SignatureTable[uid][counter] :
                      VerifyAccept(r, uid, signature, counter)
  \/ \E r \in Reqs : VerifySave(r)
  \/ ResponseSent
  \/ \E reg \in RegisterInputs, k \in KeyPool :
       AdminRegister(reg.nfcUID, reg.productData, k)
  \/ \E rawUID \in SheetUIDs :
       \/ \E updated \in BOOLEAN : SyncFindExisting(rawUID, updated)
       \/ \E updated \in BOOLEAN : SyncUnchanged(rawUID, updated)
       \/ \E k \in KeyPool : SyncFindNew(rawUID, k)
  \/ SyncSaveExisting
  \/ SyncSaveNew

\* the handlers and the first definition of the import job, against a
\* storage that answers every findOne and every save()
Spec == Init /\ [][Next]_vars

\* the same system with the second definition of the import job in place of
\* the first
SecondNext ==
  \/ \E r \in Reqs :
       Idle(r) /\ \E uid \in VerifyUIDs : VerifyMissingUID(r, uid)
  \/ \E r \in Reqs :
       Idle(r) /\ \E uid \in VerifyUIDs : VerifyInvalidUID(r, uid)
  \/ \E r \in Reqs :
       Idle(r) /\ \E uid \in VerifyUIDs : VerifyNotFound(r, uid)
  \/ \E r \in Reqs :
       Idle(r) /\ \E uid \in VerifyUIDs : VerifyInactive(r, uid)
  \/ \E r \in Reqs :
       Idle(r) /\ \E uid \in ValidUIDs, counter \in CounterInputs :
                    \E signature \in SignatureTable[uid][counter] :
                      VerifyBadSignature(r, uid, signature, counter)
  \/ \E r \in Reqs :
       Idle(r) /\ \E uid \in ValidUIDs, counter \in CounterInputs :
                    \E signature \in SignatureTable[uid][counter] :
                      VerifyBadCounter(r, uid, signature, counter)
  \/ \E r \in Reqs :
       Idle(r) /\ \E uid \in ValidUIDs, counter \in CounterInputs :
                    \E signature \in SignatureTable[uid][counter] :
                      VerifyAccept(r, uid, signature, counter)
  \/ \E r \in Reqs : VerifySave(r)
  \/ ResponseSent
  \/ \E reg \in RegisterInputs, k \in KeyPool :
       AdminRegister(reg.nfcUID, reg.productData, k)
  \/ \E rawUID \in SecondSheetUIDs :
       \/ SecondSyncFindExisting(rawUID)
       \/ \E k \in KeyPool : SecondSyncFindNew(rawUID, k)
  \/ SecondSyncSaveExisting
  \/ SyncSaveNew

SpecSecondJob == Init /\ [][SecondNext]_vars

(***************************************************************************)
(* The verification handler on a product that has been scanned before:     *)
(* the store holds one registered product with a scan history, and         *)
(* requests for it arrive.  The clock reads 0 at the start, the scans of   *)
(* the history have negative timestamps (milliseconds).                    *)
(***************************************************************************)
\* scans of the history older than a minute and younger than a day
MaxDay == 10
\* scans of the history of the last minute
MaxRecent == 6
\* scans of the history about a day old
MaxOld == 1
\* distinct addresses among the scans of the last day
MaxIps == 11

IpPool == <<"ip1", "ip2", "ip3", "ip4", "ip5", "ip6", "ip7", "ip8",
            "ip9", "ip10", "ip11", "ip12", "ip14", "ip15", "ip16">>

\* the sizes of the parts of a history: none, or about the detector's limits
OldCounts == 0..MaxOld
DayCounts == {0} \cup (IpLimit - 1)..MaxDay
RecentCounts == {0} \cup (RecentLimit - 1)..MaxRecent
IpCounts == {0} \cup (IpLimit - 1)..MaxIps

\* a history in the order the scans were pushed: nOld scans that leave the
\* day window one by one as the clock advances, nDay scans a minute old,
\* nRecent scans that leave the minute window one by one; the scans of the
\* last day come from nIps addresses, IpPool[first] the first of them
History(nOld, nDay, nRecent, nIps, first) ==
  [i \in 1..nOld |-> NewScan(i - DayWindow, "ip13")] \o
  [i \in 1..nDay |->
     NewScan(0 - RecentWindow,
             IF nIps = 0 THEN "" ELSE IpPool[first + ((i - 1) % nIps)])] \o
  [i \in 1..nRecent |->
     NewScan(i - RecentWindow,
             IF nIps = 0 THEN "" ELSE IpPool[first + ((nDay + i - 1) % nIps)])]

Histories ==
  { History(nOld, nDay, nRecent, nIps, first) :
      nOld \in OldCounts, nDay \in DayCounts, nRecent \in RecentCounts,
      nIps \in IpCounts, first \in {1, 2} }

\* a registered product after the scans of a history, each accepted without
\* a counter
ScannedProduct(scans, secretKey) ==
  [RegisteredProduct(PlainProductData, secretKey)
     EXCEPT !.scans = scans, !.scanCount = Len(scans)]

CloneInit ==
  /\ \E scans \in Histories, k \in KeyPool :
       store = (U1 :> ScannedProduct(scans, k))
  /\ pending = [r \in Reqs |-> Undefined]
  /\ resp = Undefined
  /\ now = 0
  /\ sync = <<>>

\* the requests for the scanned product: without a counter, or with one
CloneCounters == {Undefined, Some(1)}

CloneNext ==
  \/ \E r \in Reqs, counter \in CloneCounters :
       \E signature \in SignatureTable[U1][counter] :
          \/ VerifyBadSignature(r, U1, signature, counter)
          \/ VerifyBadCounter(r, U1, signature, counter)
          \/ VerifyAccept(r, U1, signature, counter)
  \/ \E r \in Reqs : VerifySave(r)
  \/ ResponseSent

SpecClone == CloneInit /\ [][CloneNext]_vars

(***************************************************************************)
(* The verification handler against a storage that can fail: one product   *)
(* has been registered, requests arrive, and each findOne and each save()  *)
(* either resolves or rejects.                                             *)
(***************************************************************************)
FailingInit ==
  /\ \E reg \in RegisterInputs, k \in KeyPool :
       store = (UidTable[reg.nfcUID].normalizedUID :> RegisteredProduct(reg.productData, k))
  /\ pending = [r \in Reqs |-> Undefined]
  /\ resp = Undefined
  /\ now = 0
  /\ sync = <<>>

FailingNext ==
  \/ \E r \in Reqs :
       Idle(r) /\ \E uid \in VerifyUIDs : VerifyMissingUID(r, uid)
  \/ \E r \in Reqs :
       Idle(r) /\ \E uid \in VerifyUIDs : VerifyInvalidUID(r, uid)
  \/ \E r \in Reqs :
       Idle(r) /\ \E uid \in VerifyUIDs : VerifyNotFound(r, uid)
  \/ \E r \in Reqs :
       Idle(r) /\ \E uid \in VerifyUIDs : VerifyInactive(r, uid)
  \/ \E r \in Reqs :
       Idle(r) /\ \E uid \in VerifyUIDs : VerifyLookupFails(r, uid)
  \/ \E r \in Reqs :
       Idle(r) /\ \E uid \in ValidUIDs, counter \in CounterInputs :
                    \E signature \in SignatureTable[uid][counter] :
                      VerifyBadSignature(r, uid, signature, counter)
  \/ \E r \in Reqs :
       Idle(r) /\ \E uid \in ValidUIDs, counter \in CounterInputs :
                    \E signature \in SignatureTable[uid][counter] :
                      VerifyBadCounter(r, uid, signature, counter)
  \/ \E r \in Reqs :
       Idle(r) /\ \E uid \in ValidUIDs, counter \in CounterInputs :
                    \E signature \in SignatureTable[uid][counter] :
                      VerifyAccept(r, uid, signature, counter)
  \/ \E r \in Reqs : VerifySave(r)
  \/ \E r \in Reqs : VerifySaveFails(r)
  \/ ResponseSent

\* the callback that answered runs to its end; the storage settles every
\* save(), and Node runs the continuation of a settled save() once the
\* running callback has returned
FailingFairness ==
  /\ WF_vars(ResponseSent)
  /\ \A r \in Reqs : SF_vars(VerifySave(r) \/ VerifySaveFails(r))

SpecFailing == FailingInit /\ [][FailingNext]_vars /\ FailingFairness

(***************************************************************************)
(* The verification handler on a product with an expiry date: one product  *)
(* has been registered, active or not, with no expiryDate or with one      *)
(* before, within or after the instants of the behaviour.                  *)
(***************************************************************************)
ExpiryDates == {Undefined, Some(0 - 1), Some(1), Some(SheetExpiry)}

ExpiryProductData ==
  { [scanCount |-> Undefined, isActive |-> a, expiryDate |-> e] :
      a \in {Undefined, Some(FALSE)}, e \in ExpiryDates }

ExpiryInit ==
  /\ \E pd \in ExpiryProductData, k \in KeyPool :
       store = (U1 :> RegisteredProduct(pd, k))
  /\ pending = [r \in Reqs |-> Undefined]
  /\ resp = Undefined
  /\ now = 0
  /\ sync = <<>>

ExpiryNext ==
  \/ \E r \in Reqs :
       Idle(r) /\ \E uid \in VerifyUIDs : VerifyMissingUID(r, uid)
  \/ \E r \in Reqs :
       Idle(r) /\ \E uid \in VerifyUIDs : VerifyInvalidUID(r, uid)
  \/ \E r \in Reqs :
       Idle(r) /\ \E uid \in VerifyUIDs : VerifyNotFound(r, uid)
  \/ \E r \in Reqs :
       Idle(r) /\ \E uid \in VerifyUIDs : VerifyInactive(r, uid)
  \/ \E r \in Reqs :
       Idle(r) /\ \E uid \in ValidUIDs, counter \in CounterInputs :
                    \E signature \in SignatureTable[uid][counter] :
                      VerifyBadSignature(r, uid, signature, counter)
  \/ \E r \in Reqs :
       Idle(r) /\ \E uid \in ValidUIDs, counter \in CounterInputs :
                    \E signature \in SignatureTable[uid][counter] :
                      VerifyBadCounter(r, uid, signature, counter)
  \/ \E r \in Reqs :
       Idle(r) /\ \E uid \in ValidUIDs, counter \in CounterInputs :
                    \E signature \in SignatureTable[uid][counter] :
                      VerifyAccept(r, uid, signature, counter)
  \/ \E r \in Reqs : VerifySave(r)
  \/ ResponseSent

SpecExpiry == ExpiryInit /\ [][ExpiryNext]_vars

(***************************************************************************)
(* The creation of products: registrations, answered 409 when the nfcUID   *)
(* is stored already, and the import job, with scans of the products in    *)
(* between.                                                                *)
(***************************************************************************)
RegisterNext ==
  \/ \E reg \in RegisterInputs, k \in KeyPool :
       AdminRegister(reg.nfcUID, reg.productData, k)
  \/ \E reg \in RegisterInputs : AdminRegisterConflict(reg.nfcUID)
  \/ \E rawUID \in SheetUIDs :
       \/ \E updated \in BOOLEAN : SyncFindExisting(rawUID, updated)
       \/ \E updated \in BOOLEAN : SyncUnchanged(rawUID, updated)
       \/ \E k \in KeyPool : SyncFindNew(rawUID, k)
  \/ SyncSaveExisting
  \/ SyncSaveNew
  \/ \E r \in Reqs :
       Idle(r) /\ \E uid \in ValidUIDs, counter \in CounterInputs :
                    \E signature \in SignatureTable[uid][counter] :
                      VerifyAccept(r, uid, signature, counter)
  \/ \E r \in Reqs : VerifySave(r)
  \/ ResponseSent

SpecRegister == Init /\ [][RegisterNext]_vars

(***************************************************************************)
(* Vocabulary of the properties.                                           *)
(***************************************************************************)
\* the handler of POST /api/verify-product run on one request, whatever its end
Verify(r, uid, signature, counter) ==
  \/ VerifyMissingUID(r, uid)
  \/ VerifyInvalidUID(r, uid)
  \/ VerifyNotFound(r, uid)
  \/ VerifyInactive(r, uid)
  \/ VerifyBadSignature(r, uid, signature, counter)
  \/ VerifyBadCounter(r, uid, signature, counter)
  \/ VerifyAccept(r, uid, signature, counter)

\* the step of the handler on a request with this identifier, whatever
\* signature and counter it carries: the checks after the lookup run only
\* when the ones before it have passed
VerifyWith(r, uid) ==
  \/ VerifyMissingUID(r, uid)
  \/ VerifyInvalidUID(r, uid)
  \/ VerifyNotFound(r, uid)
  \/ VerifyInactive(r, uid)
  \/ /\ EarlyDecision(store, uid) = "Active"
     \* what the three steps below can send: looked at first, it spares
     \* running the signature and counter checks on the other steps
     /\ resp' \in {resp, Some(RespBadSignature), Some(RespBadCounter)}
     /\ \E counter \in CounterInputs :
          \E signature \in SignatureTable[uid][counter] :
            \/ VerifyBadSignature(r, uid, signature, counter)
            \/ VerifyBadCounter(r, uid, signature, counter)
            \/ VerifyAccept(r, uid, signature, counter)

\* the product a request with this identifier is about
Target(uid) == UidTable[uid].normalizedUID

\* the request reaches an active product: well-formed identifier, registered
OnActiveProduct(uid) ==
  /\ uid # <<>>
  /\ UidTable[uid].valid
  /\ Target(uid) \in DOMAIN store
  /\ store[Target(uid)].isActive

OnInactiveProduct(uid) ==
  /\ uid # <<>>
  /\ UidTable[uid].valid
  /\ Target(uid) \in DOMAIN store
  /\ ~store[Target(uid)].isActive

\* the trusted/demo waiver of a stored product
Waived(nfcUID) ==
  \/ \E m \in DemoMarkers : Includes(nfcUID, m)
  \/ store[nfcUID].syncedFromSheets

WaivedFor(uid) == UidTable[uid].isDemoUID \/ store[Target(uid)].syncedFromSheets

\* this step is product.save() of slot r resolving: its request is answered
\* authentic
Saved(r) ==
  /\ pending[r] # <<>>
  /\ pending'[r] = <<>>
  /\ resp' # <<>>
  /\ resp'[1].authentic

IsPrefix(s, t) == Len(s) <= Len(t) /\ \A i \in 1..Len(s) : s[i] = t[i]

\* the response is one of the rejections
Rejected(response) ==
  /\ response # <<>>
  /\ ~response[1].authentic
  /\ response[1].status \in {400, 403, 404}
Forbidden(response) == Rejected(response) /\ response[1].status = 403

(***************************************************************************)
(* C1.  Two verification requests on the same non-waived product that      *)
(* present the same counter c, above the stored counter each of them read, *)
(* are not both answered authentic: when one of them has been answered     *)
(* authentic, the other is not past the counter check with only its save() *)
(* and its authentic answer left to come.                                  *)
(***************************************************************************)
C1_AtMostOneAuthentic ==
  \A r \in Reqs :
    ~ /\ resp # <<>>
      /\ resp[1].authentic
      /\ pending[r] # <<>>
      /\ pending[r][1].nfcUID = resp[1].nfcUID
      /\ pending[r][1].counter = resp[1].counter
      /\ CounterTruthy(resp[1].counter)
      /\ ~Waived(resp[1].nfcUID)

(***************************************************************************)
(* C2.  No lost update: an accepted scan never ends with the stored        *)
(* counter value the accepted scan before it on the same product ended     *)
(* with, and an accepted scan that supplies no counter leaves the stored   *)
(* counter exactly 1 higher than it was (two of them: exactly 2 higher).   *)
(***************************************************************************)
C2_NoLostUpdate ==
  [][ \A r \in Reqs :
        Saved(r) =>
          LET p == pending[r][1] IN
            /\ store[p.nfcUID].scans # <<>>
                 => store'[p.nfcUID].scanCount # store[p.nfcUID].scanCount
            /\ ~IsDefined(p.counter)
                 => store'[p.nfcUID].scanCount = store[p.nfcUID].scanCount + 1 ]_vars

(***************************************************************************)
(* C3.  The stored scanCount of a product never decreases from one state   *)
(* to the next.                                                            *)
(***************************************************************************)
C3_CounterNeverDecreases ==
  [][ \A k \in DOMAIN store :
        k \in DOMAIN store' /\ store'[k].scanCount >= store[k].scanCount ]_vars

(***************************************************************************)
(* C4.  A request on an active non-waived product that supplies an integer *)
(* counter c at or below the stored counter (0 and negative c included) is *)
(* rejected: status 403, authentic = false.                                *)
(***************************************************************************)
C4_StaleCounterRejected ==
  [][ \A uid \in VerifyUIDs :
        (OnActiveProduct(uid) /\ ~WaivedFor(uid)) =>
          \A r \in Reqs, counter \in CounterInputs :
            (IsDefined(counter) /\ counter[1] <= store[Target(uid)].scanCount) =>
              \A signature \in SignatureTable[uid][counter] :
                Verify(r, uid, signature, counter) => Forbidden(resp') ]_vars

(***************************************************************************)
(* C5.  A request on an active non-waived product with a secret, with a    *)
(* counter c above the stored counter and the signature computed over      *)
(* "<identifier as supplied>:<c>", is accepted with c as the new counter,  *)
(* whatever the gap; the save of an accepted request stores its new        *)
(* counter and answers authentic.                                          *)
(***************************************************************************)
C5_FreshCounterStored ==
  [][ /\ \A uid \in VerifyUIDs :
           ( /\ OnActiveProduct(uid)
             /\ ~WaivedFor(uid)
             /\ store[Target(uid)].secretKey # <<>> ) =>
             \A r \in Reqs, counter \in CounterInputs :
               (IsDefined(counter) /\ counter[1] > store[Target(uid)].scanCount) =>
                 \A signature \in SignatureTable[uid][counter] :
                   ( /\ signature = Some(Hmac(store[Target(uid)].secretKey,
                                              MessageTable[uid][counter]))
                     /\ Verify(r, uid, signature, counter) )
                   => /\ pending'[r] # <<>>
                      /\ pending'[r][1].nfcUID = Target(uid)
                      /\ pending'[r][1].scanCount = counter[1]
      /\ \A r \in Reqs :
           Saved(r) =>
             /\ store'[pending[r][1].nfcUID].scanCount = pending[r][1].scanCount
             /\ resp' # <<>> /\ resp'[1].authentic ]_vars

(***************************************************************************)
(* C6.  A request on an active trusted-source or demo product is accepted  *)
(* whatever signature and counter it carries, and each accepted scan of    *)
(* such a product raises the stored counter by exactly 1.                  *)
(***************************************************************************)
C6_WaivedAcceptedPlusOne ==
  [][ \A uid \in VerifyUIDs :
        (OnActiveProduct(uid) /\ WaivedFor(uid)) =>
          \A r \in Reqs, counter \in CounterInputs :
            \A signature \in SignatureTable[uid][counter] :
              Verify(r, uid, signature, counter)
              => /\ pending'[r] # <<>>
                 /\ pending'[r][1].nfcUID = Target(uid)
                 /\ pending'[r][1].scanCount = store[Target(uid)].scanCount + 1 ]_vars

(***************************************************************************)
(* C7.  A request on an active non-waived product with a secret that       *)
(* supplies a signature different from the keyed hash of "<identifier as   *)
(* supplied>:<counter>" is rejected as an invalid signature, whatever the  *)
(* counter.                                                                *)
(***************************************************************************)
C7_WrongSignatureRejected ==
  [][ \A uid \in VerifyUIDs :
        ( /\ OnActiveProduct(uid)
          /\ ~WaivedFor(uid)
          /\ store[Target(uid)].secretKey # <<>> ) =>
          \A r \in Reqs, counter \in CounterInputs :
            \A signature \in SignatureTable[uid][counter] :
              ( /\ IsDefined(signature)
                /\ signature[1] # Hmac(store[Target(uid)].secretKey,
                                       MessageTable[uid][counter])
                /\ Verify(r, uid, signature, counter) )
              => resp' = Some(RespBadSignature) ]_vars

(***************************************************************************)
(* C8.  A request on a product with isActive = false is rejected with      *)
(* status 403 (blocked or recalled), authentic = false, whatever signature *)
(* and counter it carries and whether the product is waived or not; and no *)
(* step sets isActive of a product back to true.                           *)
(***************************************************************************)
C8_InactiveRejected ==
  [][ /\ resp' # Some(RespInactive) =>
           \A r \in Reqs :
             (Idle(r) /\ (resp' # resp \/ pending'[r] # pending[r])) =>
               \A uid \in VerifyUIDs :
                 OnInactiveProduct(uid) =>
                   \A counter \in CounterInputs :
                     \A signature \in SignatureTable[uid][counter] :
                       ~Verify(r, uid, signature, counter)
      /\ \A k \in DOMAIN store :
           ~store[k].isActive => k \in DOMAIN store' /\ ~store'[k].isActive ]_vars

\* a request on an inactive product that the import has marked trusted has
\* been rejected as blocked
C8_Witness ==
  /\ resp = Some(RespInactive)
  /\ \E k \in DOMAIN store : ~store[k].isActive /\ store[k].syncedFromSheets

(***************************************************************************)
(* C9.  A verification request that ends in a rejection leaves the store   *)
(* unchanged, and leaves nothing to be saved: the step that sends one of   *)
(* the rejections changes no product and no pending save.                  *)
(***************************************************************************)
C9_RejectionChangesNothing ==
  [][ (resp' # resp /\ Rejected(resp')) => UNCHANGED <<store, pending>> ]_vars

\* a replayed counter has been rejected on a product that has a scan
\* history and a counter above 0
C9_Witness ==
  /\ resp = Some(RespBadCounter)
  /\ \E k \in DOMAIN store : store[k].scans # <<>> /\ store[k].scanCount > 0

(***************************************************************************)
(* C10.  The scan history of a product only grows at its end: in every     *)
(* step the history before is a prefix of the history after, the save of   *)
(* an accepted scan appends exactly its one event, and every other step    *)
(* (the import job's included) leaves every history as it is.              *)
(***************************************************************************)
C10_HistoryAppendOnly ==
  [][ \A k \in DOMAIN store :
        /\ k \in DOMAIN store'
        /\ IsPrefix(store[k].scans, store'[k].scans)
        /\ \A r \in Reqs :
             (Saved(r) /\ pending[r][1].nfcUID = k)
             => store'[k].scans = Append(store[k].scans, pending[r][1].scan)
        /\ (\A r \in Reqs : ~(Saved(r) /\ pending[r][1].nfcUID = k))
             => store'[k].scans = store[k].scans ]_vars

\* two scans that overlapped were saved in the other order than they were
\* stamped, and the import job then updated the same product
C10_Witness ==
  \E k \in DOMAIN store :
    /\ Len(store[k].scans) = 2
    /\ store[k].scans[1].timestamp > store[k].scans[2].timestamp
    /\ store[k].syncedFromSheets
    /\ store[k].secretKey # <<>>

\* the canonical form of a raw identifier: colons, hyphens and whitespace
\* stripped, upper-cased
Canonical(uid) == ToUpperCase(Strip(uid, {":", "-", " "}))

CanonicalTable == [uid \in VerifyUIDs |-> Canonical(uid)]

(***************************************************************************)
(* C11.  Two well-formed raw identifiers with the same canonical form look *)
(* up the same product: the lookup of one finds a product if and only if    *)
(* the lookup of the other does (one is answered NotFound exactly when the *)
(* other is).                                                              *)
(***************************************************************************)
C11_SameTagSameRecord ==
  \A u1 \in VerifyUIDs, u2 \in VerifyUIDs :
    ( /\ u1 # <<>> /\ u2 # <<>>
      /\ UidTable[u1].valid /\ UidTable[u2].valid
      /\ CanonicalTable[u1] = CanonicalTable[u2] )
    => ((Target(u1) \in DOMAIN store) <=> (Target(u2) \in DOMAIN store))

\* the canonical form is hexadecimal characters only, 14 to 20 of them
WellFormed(uid) ==
  /\ Len(CanonicalTable[uid]) >= 14
  /\ Len(CanonicalTable[uid]) <= 20
  /\ \A i \in 1..Len(CanonicalTable[uid]) : CanonicalTable[uid][i] \in HexChars

\* the check accepts exactly the well-formed identifiers, and normalising
\* twice is normalising once, for the import's normalisation and for the
\* handlers' own
IdentifierLaws ==
  \A uid \in VerifyUIDs :
    /\ UidTable[uid].valid <=> WellFormed(uid)
    /\ NormalizeUID(NormalizeUID(uid)) = NormalizeUID(uid)
    /\ NormalizedUID(NormalizedUID(uid)) = NormalizedUID(uid)

WellFormedUIDs == {uid \in VerifyUIDs : WellFormed(uid)}

C13_StoredIdentifiersCanonical ==
  \A k \in DOMAIN store :
    /\ Len(k) >= 14
    /\ Len(k) <= 20
    /\ \A i \in 1..Len(k) : k[i] \in HexChars
    /\ \A k2 \in DOMAIN store : k2 # k => Canonical(k2) # Canonical(k)

(***************************************************************************)
(* C17.  A product the import job has created or updated is marked         *)
(* syncedFromSheets after the job's save(); the job's save() changes no    *)
(* scanCount and no scan history, and sends no verification response.      *)
(***************************************************************************)
C17_ImportMarksTrusted ==
  [][ (sync # <<>> /\ sync' = <<>>) =>
        /\ (sync[1].existing \/ sync[1].nfcUID \notin DOMAIN store)
             => /\ sync[1].nfcUID \in DOMAIN store'
                /\ store'[sync[1].nfcUID].syncedFromSheets
        /\ \A k \in DOMAIN store :
             /\ store'[k].scanCount = store[k].scanCount
             /\ store'[k].scans = store[k].scans
        /\ UNCHANGED <<pending, resp>> ]_vars

(***************************************************************************)
(* C14.  The signature and counter checks are skipped exactly for products *)
(* marked syncedFromSheets and for products whose normalized identifier is *)
(* itself one of the demonstration identifiers.  On an active product that *)
(* is neither, a non-empty signature that is not the keyed hash of the     *)
(* request is rejected, and so is a positive counter at or below the       *)
(* stored one, also when the identifier contains a demonstration           *)
(* identifier as a substring; on a syncedFromSheets product no request is  *)
(* rejected for its signature or counter.                                  *)
(***************************************************************************)
C14_WaiverOnlyForDesignated ==
  [][ \A uid \in ValidUIDs :
        OnActiveProduct(uid) =>
          \A r \in Reqs :
            (Idle(r) /\ (resp' # resp \/ pending'[r] # pending[r])) =>
              \A counter \in CounterInputs :
                \A signature \in SignatureTable[uid][counter] :
                  Verify(r, uid, signature, counter) =>
                    IF store[Target(uid)].syncedFromSheets
                    THEN resp' \notin {Some(RespBadSignature), Some(RespBadCounter)}
                    ELSE (Target(uid) \notin DemoMarkers) =>
                           /\ ( /\ store[Target(uid)].secretKey # <<>>
                                /\ IsDefined(signature)
                                /\ signature[1] # <<>>
                                /\ signature[1] # Hmac(store[Target(uid)].secretKey,
                                                       MessageTable[uid][counter]) )
                                => Forbidden(resp')
                           /\ ( /\ IsDefined(counter)
                                /\ counter[1] >= 1
                                /\ counter[1] <= store[Target(uid)].scanCount )
                                => Forbidden(resp') ]_vars

(***************************************************************************)
(* C15.  The verdict of the clone detector does not change the outcome of  *)
(* a scan.  A request that passes every check has its changes handed to    *)
(* save(), and when save() resolves the new scanCount and the new scan are *)
(* stored and the request is answered 200, authentic = true, whether the   *)
(* verdict is suspicious or not; apart from the suspicious flag and the    *)
(* warning the response is the one of an unsuspicious scan.                *)
(***************************************************************************)
C15_VerdictOnlyAnnotates ==
  [][ \A r \in Reqs :
        /\ (Idle(r) /\ (resp' # resp \/ pending'[r] # pending[r])) =>
             \A uid \in ValidUIDs :
               OnActiveProduct(uid) =>
               \A counter \in CounterInputs :
               \A signature \in SignatureTable[uid][counter] :
                 ( /\ Decision(store, uid, signature, counter) = "Accept"
                   /\ Verify(r, uid, signature, counter) )
                 => /\ resp' = <<>>
                    /\ pending'[r] # <<>>
                    /\ pending'[r][1].nfcUID = Target(uid)
                    /\ pending'[r][1].scanCount = NewScanCount(store[Target(uid)], counter)
        /\ (pending[r] # <<>> /\ pending'[r] = <<>>) =>
             LET p == pending[r][1]
                 unsuspicious == [p EXCEPT !.cloneCheck =
                                    [suspicious |-> FALSE, reason |-> <<>>]]
             IN /\ resp' # <<>>
                /\ resp'[1].status = 200
                /\ resp'[1].authentic
                /\ store'[p.nfcUID].scanCount = p.scanCount
                /\ store'[p.nfcUID].scans = Append(store[p.nfcUID].scans, p.scan)
                /\ [resp'[1] EXCEPT !.suspicious = FALSE, !.warning = <<>>]
                     = RespAuthentic(unsuspicious, now)
                /\ resp'[1].suspicious = p.cloneCheck.suspicious
                /\ resp'[1].warning =
                     (IF p.cloneCheck.suspicious THEN p.cloneCheck.reason ELSE <<>>) ]_vars

\* a suspicious scan was answered authentic and its update is stored
C15_Witness ==
  /\ resp # <<>>
  /\ resp[1].authentic
  /\ resp[1].suspicious
  /\ resp[1].warning = <<ReasonIPs>>
  /\ store[resp[1].nfcUID].scanCount = resp[1].scanCount
  /\ store[resp[1].nfcUID].scans[Len(store[resp[1].nfcUID].scans)].ipAddress = "ip1"

\* the scans of a history less than 60 seconds old at time t
EventsOfLastMinute(scans, t) ==
  {i \in DOMAIN scans : t - scans[i].timestamp < 60 * 1000}

\* the non-empty addresses of the scans less than 24 hours old at time t
AddressesOfLastDay(scans, t) ==
  {scans[i].ipAddress :
     i \in {j \in DOMAIN scans : t - scans[j].timestamp < 24 * 60 * 60 * 1000}} \ {""}

(***************************************************************************)
(* C16.  For the scans in memory when the detector runs (the stored        *)
(* history with the scan just pushed) and the time it runs at, the verdict *)
(* is suspicious if and only if more than 5 scans are less than 60 seconds *)
(* old or more than 10 distinct non-empty addresses occur among the scans  *)
(* less than 24 hours old; when more than 5 scans are less than 60 seconds *)
(* old the reason is the one of that rule; with fewer than 2 scans the     *)
(* verdict is not suspicious.                                              *)
(***************************************************************************)
C16_DetectorVerdict ==
  [][ \A r \in Reqs :
        (pending[r] = <<>> /\ pending'[r] # <<>>) =>
          LET p == pending'[r][1]
              scans == Append(store[p.nfcUID].scans, p.scan)
              burst == Cardinality(EventsOfLastMinute(scans, now)) > 5
              manyIPs == Cardinality(AddressesOfLastDay(scans, now)) > 10
          IN /\ p.cloneCheck.suspicious <=> (burst \/ manyIPs)
             /\ burst => p.cloneCheck.reason = <<ReasonRecent>>
             /\ Len(scans) < 2 => ~p.cloneCheck.suspicious ]_vars

\* both rules trigger on the scans in memory and the verdict carries the
\* reason of the first; the other slot's verdict came from the second rule
C16_Witness ==
  /\ pending["r1"] # <<>>
  /\ pending["r2"] # <<>>
  /\ pending["r1"][1].cloneCheck.reason = <<ReasonRecent>>
  /\ pending["r2"][1].cloneCheck.reason = <<ReasonIPs>>

(***************************************************************************)
(* C19.  The three 403 outcomes (inactive product, signature mismatch,     *)
(* counter replay) are answered with one and the same response body: every *)
(* 403 response is the one of the inactive product.                        *)
(***************************************************************************)
C19_ForbiddenBodiesEqual ==
  Forbidden(resp) => resp[1] = RespInactive

(***************************************************************************)
(* C18.  When findOne or save() fails, the request is answered with an     *)
(* error of a kind of its own (Unavailable), which is none of BadRequest   *)
(* (400), Forbidden (403), NotFound (404) and Internal (500).              *)
(***************************************************************************)
C18_StorageFailureUnavailable ==
  [][ \A r \in Reqs :
        (VerifySaveFails(r) \/ \E uid \in VerifyUIDs : VerifyLookupFails(r, uid)) =>
          /\ resp' # <<>>
          /\ resp'[1].status \notin {400, 403, 404, 500} ]_vars

\* the statuses of the responses of the handler: success, BadRequest,
\* Forbidden, NotFound, Internal, Unavailable
ResponseKinds == {200, 400, 403, 404, 500, 503}

(***************************************************************************)
(* C20.  Every verification request receives exactly one response.  The    *)
(* step that takes a request either answers it or leaves it waiting for    *)
(* save(), never both; a waiting request stays as it is until its save()   *)
(* settles, and that step answers it; a response is never followed by a    *)
(* second one from the same callback; every response is of one of the      *)
(* kinds of the handler; and, given that every save() settles, a waiting   *)
(* request is eventually answered.                                         *)
(***************************************************************************)
C20_ExactlyOneResponse ==
  /\ [][ /\ resp # <<>> => resp' = <<>>
         /\ resp' # <<>> => resp'[1].status \in ResponseKinds
         /\ \A r \in Reqs :
              /\ (Idle(r) /\ (resp' # resp \/ pending'[r] # pending[r])) =>
                   (resp' # <<>>) # (pending'[r] # <<>>)
              /\ (pending[r] # <<>> /\ pending'[r] # pending[r]) =>
                   (pending'[r] = <<>> /\ resp' # <<>>) ]_vars
  /\ \A r \in Reqs : (pending[r] # <<>>) ~> (pending[r] = <<>> /\ resp # <<>>)

\* a request has been answered after its save() failed while another one is
\* waiting for its own
C20_Witness ==
  /\ resp = Some(RespInternal)
  /\ pending["r1"] = <<>>
  /\ pending["r2"] # <<>>
  /\ now = 2

(***************************************************************************)
(* C21.  The expiry date does not decide the outcome of a scan.  On an     *)
(* active product a request that passes the checks is handed to save()     *)
(* also when the expiryDate is in the past, and when save() resolves the   *)
(* scan is stored and answered authentic; the response carries isExpired = *)
(* true and status "Vencido" exactly when the product has an expiryDate    *)
(* earlier than the time of the response, and isExpired = false when it    *)
(* has none.                                                               *)
(***************************************************************************)
C21_ExpiredStillAccepted ==
  [][ \A r \in Reqs :
        /\ (Idle(r) /\ pending'[r] = <<>>) =>
             \A uid \in ValidUIDs :
               ( /\ OnActiveProduct(uid)
                 /\ store[Target(uid)].expiryDate # <<>>
                 /\ store[Target(uid)].expiryDate[1] < now ) =>
                 \A counter \in CounterInputs :
                   \A signature \in SignatureTable[uid][counter] :
                     Decision(store, uid, signature, counter) = "Accept"
                       => ~Verify(r, uid, signature, counter)
        /\ (pending[r] # <<>> /\ pending'[r] = <<>>) =>
             LET p == pending[r][1]
                 expiryDate == store[p.nfcUID].expiryDate
                 past == expiryDate # <<>> /\ expiryDate[1] < now
             IN /\ resp' # <<>>
                /\ resp'[1].authentic
                /\ store'[p.nfcUID].scanCount = p.scanCount
                /\ store'[p.nfcUID].scans = Append(store[p.nfcUID].scans, p.scan)
                /\ resp'[1].isExpired = past
                /\ resp'[1].productStatus = "Vencido" <=> past
                /\ expiryDate = <<>> => ~resp'[1].isExpired ]_vars

\* a scan of an expired product has been stored and answered authentic with
\* isExpired and "Vencido"
C21_Witness ==
  /\ resp # <<>>
  /\ resp[1].authentic
  /\ resp[1].isExpired
  /\ resp[1].productStatus = "Vencido"
  /\ store[resp[1].nfcUID].expiryDate = Some(1)
  /\ store[resp[1].nfcUID].scanCount = resp[1].scanCount

(***************************************************************************)
(* C22.  The checks of a request are applied in a fixed order and the      *)
(* first that fails decides.  A missing or malformed identifier is         *)
(* answered 400 whatever the store holds; a well-formed identifier whose   *)
(* lookup key is not in the store is answered 404 whatever signature and   *)
(* counter come with it; a request for an inactive product is answered     *)
(* "blocked or recalled" whatever signature and counter come with it; and  *)
(* on an active product whose signature is checked, a non-empty signature  *)
(* that is not the keyed hash is answered "invalid signature" whatever the *)
(* counter, a stale one included; no other response than the three of the  *)
(* signature and counter checks and the success ends a request for an      *)
(* active product.                                                         *)
(***************************************************************************)
C22_FirstFailingCheckDecides ==
  [][ \A r \in Reqs :
        (Idle(r) /\ (resp' # resp \/ pending'[r] # pending[r])) =>
          \A uid \in VerifyUIDs :
            IF uid \notin WellFormedUIDs
            THEN VerifyWith(r, uid) => (resp' # <<>> /\ resp'[1].status = 400)
            ELSE IF Target(uid) \notin DOMAIN store
            THEN VerifyWith(r, uid) => resp' = Some(RespNotFound)
            ELSE IF ~store[Target(uid)].isActive
            THEN VerifyWith(r, uid) => resp' = Some(RespInactive)
            ELSE IF resp' \in {resp, Some(RespBadCounter)}
            THEN ( ~WaivedFor(uid) /\ store[Target(uid)].secretKey # <<>> ) =>
                   \A counter \in CounterInputs :
                     \A signature \in SignatureTable[uid][counter] :
                       ( /\ IsDefined(signature)
                         /\ signature[1] # <<>>
                         /\ signature[1] # Hmac(store[Target(uid)].secretKey,
                                                MessageTable[uid][counter]) )
                       => ~Verify(r, uid, signature, counter)
            ELSE resp' # Some(RespBadSignature) => ~VerifyWith(r, uid) ]_vars

\* a signature has been refused on a product whose stored counter makes the
\* counters 1 and 2 of the requests stale
C22_Witness ==
  /\ resp = Some(RespBadSignature)
  /\ \E k \in DOMAIN store :
       /\ store[k].isActive
       /\ ~store[k].syncedFromSheets
       /\ ~IsDemoUID(k)
       /\ store[k].scanCount >= MaxCounter

(***************************************************************************)
(* C23.  An accepted scan changes only scanCount and scans of its product. *)
(* The step that hands the changes to save() leaves the store as it is;    *)
(* the step in which save() resolves leaves every other product as it is,  *)
(* adds and removes no product, and leaves secretKey, isActive,            *)
(* syncedFromSheets and expiryDate of the scanned product as they are      *)
(* stored at that moment.                                                  *)
(***************************************************************************)
C23_ScanFrame ==
  [][ \A r \in Reqs :
        /\ (pending[r] = <<>> /\ pending'[r] # <<>>) => store' = store
        /\ (pending[r] # <<>> /\ pending'[r] = <<>>) =>
             LET k == pending[r][1].nfcUID
             IN /\ DOMAIN store' = DOMAIN store
                /\ \A j \in DOMAIN store : j # k => store'[j] = store[j]
                /\ store'[k].secretKey = store[k].secretKey
                /\ store'[k].isActive = store[k].isActive
                /\ store'[k].syncedFromSheets = store[k].syncedFromSheets
                /\ store'[k].expiryDate = store[k].expiryDate ]_vars

\* a scan has been saved on an imported product, next to another product,
\* while a request that read the product before the import is still in flight
C23_Witness ==
  /\ resp # <<>>
  /\ resp[1].authentic
  /\ Cardinality(DOMAIN store) = 2
  /\ store[resp[1].nfcUID].syncedFromSheets
  /\ store[resp[1].nfcUID].scans # <<>>
  /\ \E r \in Reqs :
       /\ pending[r] # <<>>
       /\ pending[r][1].nfcUID = resp[1].nfcUID
       /\ pending[r][1].expiryDate = <<>>

(***************************************************************************)
(* C24.  Every product created by a registration or by the import job      *)
(* starts with scanCount 0 and no scans, whatever productData the caller   *)
(* supplies; a registration of an nfcUID that is stored already is         *)
(* answered 409 and leaves the store as it is.                             *)
(***************************************************************************)
C24_CreatedAtZero ==
  [][ /\ \A k \in (DOMAIN store') \ (DOMAIN store) :
           store'[k].scanCount = 0 /\ store'[k].scans = <<>>
      /\ \A reg \in RegisterInputs :
           ( /\ Ready
             /\ Exists(store, UidTable[reg.nfcUID].normalizedUID)
             /\ resp' # resp ) =>
             (resp' = Some(RespConflict) /\ store' = store) ]_vars

(***************************************************************************)
(* C25.  Replay safety of the products that are checked (not synced from   *)
(* the sheet, not a demonstration identifier, with a secret key): once     *)
(* save() of an accepted request has resolved, a request with the same     *)
(* identifier, the same signature and the same counter, or the same        *)
(* absence of a counter, is not accepted again.                            *)
(***************************************************************************)
C25_NoReplayAccepted ==
  [][ \A r \in Reqs :
        Saved(r) =>
          \A uid \in ValidUIDs :
            ( /\ Target(uid) = pending[r][1].nfcUID
              /\ ~WaivedFor(uid)
              /\ ~store'[Target(uid)].syncedFromSheets
              /\ store[Target(uid)].secretKey # <<>> ) =>
              \A signature \in SignatureTable[uid][pending[r][1].counter] :
                Decision(store, uid, signature, pending[r][1].counter) = "Accept" =>
                  Decision(store', uid, signature, pending[r][1].counter) # "Accept" ]_vars

(***************************************************************************)
(* C26.  On an active product that is checked (not synced from the sheet,  *)
(* not a demonstration identifier) and has a secret key, a request goes on *)
(* to be saved and answered authentic only if it carries a signature, and  *)
(* that signature is the keyed hash of "<identifier as supplied>:<counter>"*)
(* under the secret key of the product.                                    *)
(***************************************************************************)
C26_AuthenticOnlyWhenSigned ==
  [][ \A r \in Reqs :
        (pending[r] = <<>> /\ pending'[r] # <<>>) =>
          \A uid \in ValidUIDs :
            ( /\ Target(uid) = pending'[r][1].nfcUID
              /\ OnActiveProduct(uid)
              /\ ~WaivedFor(uid)
              /\ store[Target(uid)].secretKey # <<>> ) =>
              \A signature \in SignatureTable[uid][pending'[r][1].counter] :
                Decision(store, uid, signature, pending'[r][1].counter) = "Accept" =>
                  /\ IsDefined(signature)
                  /\ signature[1] = ExpectedSignature(store[Target(uid)], uid,
                                                      pending'[r][1].counter) ]_vars

(***************************************************************************)
(* C27.  A product created by the registration route (syncedFromSheets     *)
(* false, not a demonstration identifier) stays checked: no verification   *)
(* request and no step of the import job sets its syncedFromSheets to      *)
(* true, and the product stays in the store.                               *)
(***************************************************************************)
C27_RegisteredStaysChecked ==
  [][ \A k \in DOMAIN store :
        (~store[k].syncedFromSheets /\ ~IsDemoUID(k)) =>
          (k \in DOMAIN store' /\ ~store'[k].syncedFromSheets) ]_vars

(***************************************************************************)
(* C28.  A product created with scanCount 0 and no scans has, in every     *)
(* state, a stored scanCount that is at least the number of its scans,     *)
(* however the verification requests on it interleave.                     *)
(***************************************************************************)
C28_CounterCoversScans ==
  \A k \in DOMAIN store : store[k].scanCount >= Len(store[k].scans)

(***************************************************************************)
(* C29.  On a product created with scanCount 0, the only accepted scan     *)
(* that is answered isFirstScan = true is the first one: when save() of a  *)
(* request resolves and the answer says isFirstScan, the product had no    *)
(* scan before it.                                                         *)
(***************************************************************************)
C29_FirstScanOnce ==
  [][ \A r \in Reqs :
        (Saved(r) /\ resp'[1].isFirstScan) =>
          store[pending[r][1].nfcUID].scans = <<>> ]_vars

====
